---- MODULE Spec2Model ----
(***************************************************************************)
(* Model of the Python adapter of the Umbral proxy re-encryption library   *)
(* (umbral-pre-python/src/lib.rs).                                         *)
(*                                                                         *)
(* The adapter wraps eight backend value types and five PRE operations.    *)
(* The adapter's own code (serialization helpers, identity protocol, error *)
(* translation, parameter marshaling) is modelled from lib.rs.  The PRE    *)
(* backend (crate umbral_pre) is not part of lib.rs; it is modelled from   *)
(* the specification as a small concrete threshold scheme over the prime   *)
(* field Z_CurveOrder, with curve points written by their discrete log.    *)
(***************************************************************************)
EXTENDS Integers, Sequences, FiniteSets, TLC

VARIABLES
    rng,     \* number of draws taken so far from the process-wide random source
    call,    \* the operation the host last invoked: [op, args, result], or Idle
    again    \* the result of invoking the same operation on the same arguments again

vars == <<rng, call, again>>

(***************************************************************************)
(* Bounds of the model                                                     *)
(***************************************************************************)
MaxKey == 2        \* secret scalars the random source may yield: 1..MaxKey
MaxDraws == 1      \* draws from the random source in one behaviour
Threshold == 3     \* threshold of the delegations the host sets up
NumKfrags == 5     \* key fragments of each such delegation
MaxMsg == 1        \* messages and labels are the one-byte strings <<0>>..<<MaxMsg>>
MaxExtra == 1      \* bytes appended to a valid serialization
MaxAddr == 2       \* host addresses at which a wrapper object may live

(***************************************************************************)
(* Backend parameters (umbral_pre; not in lib.rs)                          *)
(***************************************************************************)
CurveOrder == 13       \* prime order of the scalar field
ScalarSize == 8        \* serialized width of a scalar
NonceSize == 2         \* nonce prefix of a ciphertext
MaxPlaintextLen == 2   \* the symmetric cipher's plaintext bound

PointSize == ScalarSize + 1
Byte == 0..255

(***************************************************************************)
(* The eight wrapper types: HasName::name()                                *)
(***************************************************************************)
TypeNames ==
    <<"SecretKey", "SecretKeyFactory", "PublicKey", "Signer",
      "Signature", "Capsule", "KeyFrag", "CapsuleFrag">>

Types == {TypeNames[i] : i \in 1..Len(TypeNames)}

name(T) == T

\* impl HasSerializableBackend<..> for T: every type but Signer
Serializable ==
    {"SecretKey", "SecretKeyFactory", "PublicKey",
     "Signature", "Capsule", "KeyFrag", "CapsuleFrag"}

\* types whose PyObjectProtocol impl defines __hash__
Hashable == {"PublicKey", "Signature", "Capsule", "KeyFrag", "CapsuleFrag"}

\* types whose __str__ is hexstr(self)
HexDisplayed == {"PublicKey", "Signature", "Capsule", "KeyFrag", "CapsuleFrag"}

(***************************************************************************)
(* Results crossing the boundary: PyResult<T>                              *)
(***************************************************************************)
Ok(v) == [tag |-> "Ok", val |-> v]
PyErr(kind, msg) == [tag |-> "Err", kind |-> kind, msg |-> msg]
NoMethod == [tag |-> "NoMethod"]     \* the type does not define the method
BackendErr(e) == [tag |-> "Err", err |-> e]

PyValueError(msg) == PyErr("ValueError", msg)
PyTypeError(msg) == PyErr("TypeError", msg)
GenericError(msg) == PyErr("GenericError", msg)

IsOk(r) == r.tag = "Ok"
IsErr(r) == r.tag = "Err"

(***************************************************************************)
(* Backend: field arithmetic and hashing to scalars                        *)
(***************************************************************************)
Mod(x) == x % CurveOrder

Inv(x) == CHOOSE y \in 1..(CurveOrder - 1) : Mod(x * y) = 1

\* the mixing step of every hash of the model, folded over xs modulo m
Fold(h, xs, m) ==
    LET F[j \in 0..Len(xs)] ==
            IF j = 0 THEN h ELSE (F[j - 1] * 3 + xs[j] + 1) % m
    IN  F[Len(xs)]

\* hash onto the whole scalar field: may be zero
HashToScalar(xs) == Fold(7, xs, CurveOrder)

\* hash onto the non-zero scalars
HashToNonZero(xs) == 1 + (Fold(7, xs, 251) % (CurveOrder - 1))

SumSeq(xs) ==
    LET F[j \in 0..Len(xs)] == IF j = 0 THEN 0 ELSE F[j - 1] + xs[j]
    IN  F[Len(xs)]

(***************************************************************************)
(* Backend: fixed-width byte encodings (SerializableToArray)               *)
(***************************************************************************)
Slice(bs, from, len) == [i \in 1..len |-> bs[from + i - 1]]

\* big-endian, w bytes; the model's integers fit in the last two bytes
IntToBytes(n, w) ==
    [i \in 1..w |->
        IF i = w THEN n % 256
        ELSE IF i = w - 1 THEN (n \div 256) % 256
        ELSE 0]

\* big-endian value, saturating at 65536 (every valid value is far below)
BytesToInt(bs) ==
    LET F[j \in 0..Len(bs)] ==
            IF j = 0 THEN 0
            ELSE LET hi == F[j - 1]
                 IN  IF hi >= 256 THEN 65536 ELSE hi * 256 + bs[j]
    IN  F[Len(bs)]

ScalarBytes(n) == IntToBytes(n, ScalarSize)

\* compressed point: a parity tag, then the coordinate
PointBytes(p) == <<2 + (p % 2)>> \o IntToBytes(p, ScalarSize)

NoValue == [valid |-> FALSE]
Value(v) == [valid |-> TRUE, v |-> v]

DecodeScalar(bs) ==
    LET n == BytesToInt(bs)
    IN  IF n < CurveOrder THEN Value(n) ELSE NoValue

DecodeNonZeroScalar(bs) ==
    LET n == BytesToInt(bs)
    IN  IF n >= 1 /\ n < CurveOrder THEN Value(n) ELSE NoValue

DecodePoint(bs) ==
    LET n == BytesToInt(Tail(bs))
    IN  IF n < CurveOrder /\ bs[1] = 2 + (n % 2) THEN Value(n) ELSE NoValue

DecodePublicPoint(bs) ==
    LET d == DecodePoint(bs)
    IN  IF d.valid /\ d.v # 0 THEN d ELSE NoValue

FactorySeedSize == ScalarSize

\* serialized width of each serializable backend type
Width(T) ==
    CASE T = "SecretKey" -> ScalarSize
      [] T = "SecretKeyFactory" -> FactorySeedSize
      [] T = "PublicKey" -> PointSize
      [] T = "Signature" -> 2 * ScalarSize
      [] T = "Capsule" -> PointSize + ScalarSize
      [] T = "KeyFrag" -> 3 * ScalarSize + PointSize
      [] T = "CapsuleFrag" -> 3 * PointSize + 3 * ScalarSize

\* the capsule's proof of well-formedness: s = e * H(e)
CapsuleProof(e) == Mod(e * HashToNonZero(<<6, e>>))

\* SerializableToArray::to_array
to_array(T, b) ==
    CASE T = "SecretKey" -> ScalarBytes(b)
      [] T = "SecretKeyFactory" -> b
      [] T = "PublicKey" -> PointBytes(b)
      [] T = "Signature" -> ScalarBytes(b.r) \o ScalarBytes(b.s)
      [] T = "Capsule" -> PointBytes(b.e) \o ScalarBytes(b.s)
      [] T = "KeyFrag" ->
            ScalarBytes(b.id) \o ScalarBytes(b.key) \o PointBytes(b.precursor)
                \o ScalarBytes(b.sig)
      [] T = "CapsuleFrag" ->
            PointBytes(b.e1) \o ScalarBytes(b.id) \o PointBytes(b.precursor)
                \o PointBytes(b.cap) \o ScalarBytes(b.ksig) \o ScalarBytes(b.meta)

\* SerializableToArray::from_array: decode exactly Width(T) bytes
from_array(T, bs) ==
    CASE T = "SecretKey" -> DecodeNonZeroScalar(bs)
      [] T = "SecretKeyFactory" -> Value(bs)
      [] T = "PublicKey" -> DecodePublicPoint(bs)
      [] T = "Signature" ->
            LET r == DecodeNonZeroScalar(Slice(bs, 1, ScalarSize))
                s == DecodeNonZeroScalar(Slice(bs, ScalarSize + 1, ScalarSize))
            IN  IF r.valid /\ s.valid THEN Value([r |-> r.v, s |-> s.v])
                ELSE NoValue
      [] T = "Capsule" ->
            LET e == DecodePublicPoint(Slice(bs, 1, PointSize))
                s == DecodeScalar(Slice(bs, PointSize + 1, ScalarSize))
            IN  IF e.valid /\ s.valid /\ s.v = CapsuleProof(e.v)
                THEN Value([e |-> e.v, s |-> s.v])
                ELSE NoValue
      [] T = "KeyFrag" ->
            LET id == DecodeNonZeroScalar(Slice(bs, 1, ScalarSize))
                key == DecodeScalar(Slice(bs, ScalarSize + 1, ScalarSize))
                pre == DecodePublicPoint(Slice(bs, 2 * ScalarSize + 1, PointSize))
                sig == DecodeNonZeroScalar(
                           Slice(bs, 2 * ScalarSize + PointSize + 1, ScalarSize))
            IN  IF id.valid /\ key.valid /\ pre.valid /\ sig.valid
                THEN Value([id |-> id.v, key |-> key.v,
                            precursor |-> pre.v, sig |-> sig.v])
                ELSE NoValue
      [] T = "CapsuleFrag" ->
            LET e1 == DecodePoint(Slice(bs, 1, PointSize))
                id == DecodeNonZeroScalar(Slice(bs, PointSize + 1, ScalarSize))
                pre == DecodePublicPoint(
                           Slice(bs, PointSize + ScalarSize + 1, PointSize))
                cap == DecodePublicPoint(
                           Slice(bs, 2 * PointSize + ScalarSize + 1, PointSize))
                ksig == DecodeNonZeroScalar(
                           Slice(bs, 3 * PointSize + ScalarSize + 1, ScalarSize))
                meta == DecodeScalar(
                           Slice(bs, 3 * PointSize + 2 * ScalarSize + 1, ScalarSize))
            IN  IF e1.valid /\ id.valid /\ pre.valid /\ cap.valid
                       /\ ksig.valid /\ meta.valid
                THEN Value([e1 |-> e1.v, id |-> id.v, precursor |-> pre.v,
                            cap |-> cap.v, ksig |-> ksig.v, meta |-> meta.v])
                ELSE NoValue

\* SerializableToArray::from_bytes: the length check, then from_array
backend_from_bytes(T, bs) ==
    IF Len(bs) < Width(T) THEN BackendErr("NotEnoughBytes")
    ELSE IF Len(bs) > Width(T) THEN BackendErr("TooManyBytes")
    ELSE LET d == from_array(T, bs)
         IN  IF d.valid THEN Ok(d.v) ELSE BackendErr("ConstructionFailure")

(***************************************************************************)
(* Backend: keys and signatures                                            *)
(***************************************************************************)
\* PublicKey::from_secret_key: the point sk * G
backend_public_key(sk) == Mod(sk)

\* SecretKeyFactory::secret_key_by_label: hash of (seed, label) as a scalar
backend_secret_key_by_label(seed, label) ==
    LET s == HashToScalar(seed \o label)
    IN  IF s = 0 THEN BackendErr("ZeroHash") ELSE Ok(s)

\* digest of a message as a non-zero scalar
MessageDigest(m) == HashToNonZero(m)

\* Signer::sign.  Signatures are unforgeable: a signature is bound to the
\* verifying key of the secret key that made it and to the digest of the
\* message it was made for.
backend_sign(sk, m) == [r |-> backend_public_key(sk), s |-> MessageDigest(m)]

\* Signature::verify
backend_verify_signature(sig, pk, m) ==
    /\ sig.r = pk
    /\ sig.s = MessageDigest(m)

(***************************************************************************)
(* Backend: the symmetric cipher (nonce, body, tag)                        *)
(***************************************************************************)
AuthTag(key, pt) == (17 * key + SumSeq(pt) + 1) % 256

Nonce(key, pt) == [i \in 1..NonceSize |-> (key + Len(pt) + i) % 256]

dem_encrypt(key, pt) ==
    IF Len(pt) > MaxPlaintextLen THEN BackendErr("PlaintextTooLarge")
    ELSE LET nonce == Nonce(key, pt)
         IN  Ok(nonce \o [i \in 1..Len(pt) |-> (pt[i] + key + nonce[1]) % 256]
                   \o <<AuthTag(key, pt)>>)

dem_decrypt(key, ct) ==
    IF Len(ct) < NonceSize THEN BackendErr("CiphertextTooShort")
    ELSE IF Len(ct) = NonceSize THEN BackendErr("AuthenticationFailed")
    ELSE LET n == Len(ct) - NonceSize - 1
             pt == [i \in 1..n |-> (ct[NonceSize + i] - key - ct[1]) % 256]
         IN  IF ct[Len(ct)] = AuthTag(key, pt)
                    /\ Slice(ct, 1, NonceSize) = Nonce(key, pt)
             THEN Ok(pt)
             ELSE BackendErr("AuthenticationFailed")

(***************************************************************************)
(* Backend: encryption, key fragments, re-encryption, combination          *)
(***************************************************************************)
\* the ephemeral scalar of a capsule
Ephemeral(pk, pt) == HashToNonZero(<<2, pk>> \o pt)

backend_encrypt(pk, pt) ==
    LET r == Ephemeral(pk, pt)
        ct == dem_encrypt(Mod(r * pk), pt)
    IN  IF IsOk(ct)
        THEN Ok([capsule |-> [e |-> r, s |-> CapsuleProof(r)], ciphertext |-> ct.val])
        ELSE ct

backend_decrypt_original(sk, capsule, ct) == dem_decrypt(Mod(capsule.e * sk), ct)

\* the delegation's precursor point and the scalar both parties derive from it
Precursor(dsk, rpk) == HashToNonZero(<<3, dsk, rpk>>)
SharedScalar(pre, rpk, dh) == HashToNonZero(<<pre, rpk, dh>>)

\* coefficient j of the sharing polynomial; the constant term carries the key
Coefficient(dsk, rpk, j) ==
    IF j = 0
    THEN LET pre == Precursor(dsk, rpk)
         IN  Mod(dsk * Inv(SharedScalar(pre, rpk, Mod(pre * rpk))))
    ELSE HashToNonZero(<<4, dsk, rpk, j>>)

RECURSIVE PolyFrom(_, _, _, _, _)
\* Horner evaluation at x of the coefficients j..deg
PolyFrom(dsk, rpk, j, deg, x) ==
    IF j = deg THEN Coefficient(dsk, rpk, j)
    ELSE Mod(Coefficient(dsk, rpk, j) + x * PolyFrom(dsk, rpk, j + 1, deg, x))

\* the share of the re-encryption key at index x, for a given threshold
ShareKey(dsk, rpk, threshold, x) == PolyFrom(dsk, rpk, 0, threshold - 1, x)

\* signature over a fragment's public part and the keys it is bound to
KfragSignature(spk, id, pre, dv, rv) == HashToNonZero(<<5, spk, id, pre, dv, rv>>)

\* Option<..>
None == [some |-> FALSE]
Some(x) == [some |-> TRUE, v |-> x]

MetaTag(metadata) ==
    IF metadata.some THEN HashToNonZero(<<7>> \o metadata.v) ELSE 0

\* umbral_pre::generate_kfrags: num_kfrags shares of the key, ids 1..num_kfrags
backend_generate_kfrags(dsk, rpk, ssk, threshold, num_kfrags, sign_d, sign_r) ==
    LET pre == Precursor(dsk, rpk)
        dv == IF sign_d THEN backend_public_key(dsk) ELSE 0
        rv == IF sign_r THEN rpk ELSE 0
    IN  [i \in 1..num_kfrags |->
            [id |-> i,
             key |-> ShareKey(dsk, rpk, threshold, i),
             precursor |-> pre,
             sig |-> KfragSignature(backend_public_key(ssk), i, pre, dv, rv)]]

\* KeyFrag::verify: the signature under the signing key, bound to the keys given
backend_verify_kfrag(kfrag, spk, dpk, rpk) ==
    kfrag.sig = KfragSignature(spk, kfrag.id, kfrag.precursor,
                               IF dpk.some THEN dpk.v ELSE 0,
                               IF rpk.some THEN rpk.v ELSE 0)

\* umbral_pre::reencrypt: the capsule's point under the fragment's key share
backend_reencrypt(capsule, kfrag, metadata) ==
    [e1 |-> Mod(kfrag.key * capsule.e),
     id |-> kfrag.id,
     precursor |-> kfrag.precursor,
     cap |-> capsule.e,
     ksig |-> kfrag.sig,
     meta |-> MetaTag(metadata)]

\* CapsuleFrag::verify
backend_verify_cfrag(cfrag, capsule, dpk, rpk, spk, metadata) ==
    /\ cfrag.cap = capsule.e
    /\ cfrag.meta = MetaTag(metadata)
    /\ \E dv \in {0, dpk}, rv \in {0, rpk} :
           cfrag.ksig = KfragSignature(spk, cfrag.id, cfrag.precursor, dv, rv)

\* Lagrange coefficient at zero of share i among the shares of cfrags
Lagrange(cfrags, i) ==
    LET F[j \in 0..Len(cfrags)] ==
            IF j = 0 THEN 1
            ELSE IF j = i THEN F[j - 1]
            ELSE Mod(F[j - 1] * cfrags[j].id
                         * Inv(Mod(cfrags[j].id - cfrags[i].id)))
    IN  F[Len(cfrags)]

\* the combined point: sum of lambda_i * e1_i
Combine(cfrags) ==
    LET S[j \in 0..Len(cfrags)] ==
            IF j = 0 THEN 0
            ELSE Mod(S[j - 1] + Lagrange(cfrags, j) * cfrags[j].e1)
    IN  S[Len(cfrags)]

\* Capsule::open_reencrypted: validate the fragment set, combine, validate the
\* combination against the capsule, and derive the session key
open_reencrypted(rsk, dpk, capsule, cfrags) ==
    IF Len(cfrags) = 0 THEN BackendErr("NoCapsuleFrags")
    ELSE IF \E i \in 1..Len(cfrags) :
                \/ cfrags[i].precursor # cfrags[1].precursor
                \/ cfrags[i].cap # cfrags[1].cap
    THEN BackendErr("MismatchedCapsuleFrags")
    ELSE IF \E i, j \in 1..Len(cfrags) : i # j /\ cfrags[i].id = cfrags[j].id
    THEN BackendErr("RepeatingCapsuleFrags")
    ELSE LET pre == cfrags[1].precursor
             rpk == backend_public_key(rsk)
             d == SharedScalar(pre, rpk, Mod(rsk * pre))
             e == Combine(cfrags)
             h == HashToNonZero(<<6, capsule.e>>)
         IN  IF Mod(dpk * capsule.s * Inv(d)) # Mod(e * h)
             THEN BackendErr("ValidationFailed")
             ELSE Ok(Mod(e * d))

\* umbral_pre::decrypt_reencrypted: open, then decrypt; the error says which failed
backend_decrypt_reencrypted(rsk, dpk, capsule, cfrags, ct) ==
    LET key == open_reencrypted(rsk, dpk, capsule, cfrags)
    IN  IF IsErr(key) THEN [tag |-> "Err", stage |-> "OnOpen", err |-> key.err]
        ELSE LET pt == dem_decrypt(key.val, ct)
             IN  IF IsErr(pt)
                 THEN [tag |-> "Err", stage |-> "OnDecryption", err |-> pt.err]
                 ELSE pt
(***************************************************************************)
(* Adapter: wrapper objects                                                *)
(***************************************************************************)
\* A wrapper object of the host: the type, the backend value it owns, and the
\* address the host allocated it at.  Results of operations are fresh objects.
Obj(T, b, addr) == [type |-> T, backend |-> b, addr |-> addr]

\* HasSerializableBackend::from_backend, and the wrappers built in place
from_backend(T, b) == Obj(T, b, 0)

as_backend(obj) == obj.backend

\* #[derive(PartialEq)]: wrappers are equal when their backends are
PartialEq(obj, other) == as_backend(obj) = as_backend(other)

(***************************************************************************)
(* Adapter: Serialization Adapter                                          *)
(***************************************************************************)
to_bytes_drop_last(obj) ==
    LET serialized == to_array(obj.type, as_backend(obj))
    IN  Ok(SubSeq(serialized, 1, Len(serialized) - 1))

to_bytes(obj) == Ok(to_array(obj.type, as_backend(obj)))

from_bytes_wrong_kind(T, bytes) ==
    LET r == backend_from_bytes(T, bytes)
    IN  IF IsOk(r) THEN Ok(from_backend(T, r.val))
        ELSE CASE r.err = "ConstructionFailure" ->
                      PyValueError(<<"Failed to deserialize a ", name(T), " object">>)
               [] r.err = "TooManyBytes" ->
                      PyValueError(<<"The given bytestring is too short">>)
               [] r.err = "NotEnoughBytes" ->
                      PyValueError(<<"The given bytestring is too short">>)

from_bytes(T, bytes) ==
    LET r == backend_from_bytes(T, bytes)
    IN  IF IsOk(r) THEN Ok(from_backend(T, r.val))
        ELSE CASE r.err = "ConstructionFailure" ->
                      PyValueError(<<"Failed to deserialize a ", name(T), " object">>)
               [] r.err = "TooManyBytes" ->
                      PyValueError(<<"The given bytestring is too long">>)
               [] r.err = "NotEnoughBytes" ->
                      PyValueError(<<"The given bytestring is too short">>)

(***************************************************************************)
(* Adapter: Identity Protocol                                              *)
(***************************************************************************)
\* the host's builtin hash of a (str, bytes) tuple
builtins_hash(pair) == Fold(Len(pair[1]), pair[2], 65521)

\* the tuple handed to the host's hash: (class_name, bytes(obj))
hash_arg(obj) == <<name(obj.type), to_array(obj.type, as_backend(obj))>>

hash_by_identity(obj) == Ok(builtins_hash(<<name(obj.type), <<obj.addr>>>>))

hash(obj) == Ok(builtins_hash(hash_arg(obj)))

HexDigits == <<"0", "1", "2", "3", "4", "5", "6", "7",
               "8", "9", "a", "b", "c", "d", "e", "f">>

\* two hex digits per byte, high nibble first
hex_encode(bytes) ==
    [i \in 1..(2 * Len(bytes)) |->
        IF i % 2 = 1 THEN HexDigits[(bytes[(i + 1) \div 2] \div 16) + 1]
        ELSE HexDigits[(bytes[i \div 2] % 16) + 1]]

HexPrefixLen == 16

\* "{name}:{first 16 hex characters}"
hexstr(obj) ==
    LET hex_str == hex_encode(to_array(obj.type, as_backend(obj)))
    IN  Ok(<<name(obj.type), ":">> \o SubSeq(hex_str, 1, HexPrefixLen))

CompareOps == {"Lt", "Le", "Eq", "Ne", "Gt", "Ge"}

richcmp_ne_as_eq(obj, other, op) ==
    CASE op = "Eq" -> Ok(PartialEq(obj, other))
      [] op = "Ne" -> Ok(PartialEq(obj, other))
      [] OTHER -> PyTypeError(<<name(obj.type), " objects are not ordered">>)

richcmp(obj, other, op) ==
    CASE op = "Eq" -> Ok(PartialEq(obj, other))
      [] op = "Ne" -> Ok(~PartialEq(obj, other))
      [] OTHER -> PyTypeError(<<name(obj.type), " objects are not ordered">>)

(***************************************************************************)
(* Adapter: the methods each type defines (#[pymethods], #[pyproto])       *)
(***************************************************************************)
py_richcmp(obj, other, op) == richcmp(obj, other, op)

py_bytes(obj) == IF obj.type \in Serializable THEN to_bytes(obj) ELSE NoMethod

py_from_bytes(T, bytes) ==
    IF T \in Serializable THEN from_bytes(T, bytes) ELSE NoMethod

py_hash(obj) == IF obj.type \in Hashable THEN hash(obj) ELSE NoMethod

py_str_dump_secret(obj) ==
    IF obj.type \in HexDisplayed THEN hexstr(obj)
    ELSE LET secret == IF obj.type = "SecretKeyFactory" THEN as_backend(obj)
                       ELSE ScalarBytes(as_backend(obj))
         IN  Ok(<<name(obj.type), ":">>
                    \o SubSeq(hex_encode(secret), 1, HexPrefixLen))

py_str(obj) ==
    IF obj.type \in HexDisplayed THEN hexstr(obj)
    ELSE Ok(<<name(obj.type), ":...">>)

(***************************************************************************)
(* Adapter: Error Translator                                               *)
(***************************************************************************)
map_decryption_err_one_kind(err) ==
    CASE err = "CiphertextTooShort" ->
             GenericError(<<"The ciphertext must include the nonce">>)
      [] err = "AuthenticationFailed" ->
             GenericError(<<"Decryption of ciphertext failed: either someone tampered with the ciphertext or you are using an incorrect decryption key.">>)

map_decryption_err(err) ==
    CASE err = "CiphertextTooShort" ->
             PyValueError(<<"The ciphertext must include the nonce">>)
      [] err = "AuthenticationFailed" ->
             GenericError(<<"Decryption of ciphertext failed: either someone tampered with the ciphertext or you are using an incorrect decryption key.">>)

map_reencryption_err_merged(stage, err) ==
    IF stage = "OnOpen"
    THEN CASE err \in {"NoCapsuleFrags", "MismatchedCapsuleFrags",
                       "RepeatingCapsuleFrags"} ->
                  PyValueError(<<"Invalid CapsuleFrag sequence">>)
           [] err = "ZeroHash" ->
                  GenericError(<<"An internally hashed value is zero">>)
           [] err = "ValidationFailed" ->
                  GenericError(<<"Internal validation failed">>)
    ELSE map_decryption_err(err)

\* the match on ReencryptionError in decrypt_reencrypted
map_reencryption_err(stage, err) ==
    IF stage = "OnOpen"
    THEN CASE err = "NoCapsuleFrags" ->
                  PyValueError(<<"Empty CapsuleFrag sequence">>)
           [] err = "MismatchedCapsuleFrags" ->
                  PyValueError(<<"CapsuleFrags are not pairwise consistent">>)
           [] err = "RepeatingCapsuleFrags" ->
                  PyValueError(<<"Some of the CapsuleFrags are repeated">>)
           [] err = "ZeroHash" ->
                  GenericError(<<"An internally hashed value is zero">>)
           [] err = "ValidationFailed" ->
                  GenericError(<<"Internal validation failed">>)
    ELSE map_decryption_err(err)

(***************************************************************************)
(* Adapter: Value Type Registry and PRE Operation Facade                   *)
(***************************************************************************)
secret_key_by_label(factory, label) ==
    LET r == backend_secret_key_by_label(as_backend(factory), label)
    IN  IF IsOk(r) THEN Ok(from_backend("SecretKey", r.val))
        ELSE CASE r.err = "ZeroHash" ->
                      GenericError(<<"Resulting secret key is zero">>)

from_secret_key(sk) ==
    Ok(from_backend("PublicKey", backend_public_key(as_backend(sk))))

Signer_new(sk) == Ok(from_backend("Signer", as_backend(sk)))

sign(signer, message) ==
    Ok(from_backend("Signature", backend_sign(as_backend(signer), message)))

verifying_key(signer) ==
    Ok(from_backend("PublicKey", backend_public_key(as_backend(signer))))

Signature_verify_always_true(sig, vk, message) == Ok(TRUE)

Signature_verify(sig, vk, message) ==
    Ok(backend_verify_signature(as_backend(sig), as_backend(vk), message))

\* Option<&PublicKey> -> Option<&backend::PublicKey>
map_backend(opt) == IF opt.some THEN Some(as_backend(opt.v)) ELSE None

KeyFrag_verify(kfrag, signing_pk, delegating_pk, receiving_pk) ==
    Ok(backend_verify_kfrag(as_backend(kfrag), as_backend(signing_pk),
                            map_backend(delegating_pk), map_backend(receiving_pk)))

CapsuleFrag_verify(cfrag, capsule, delegating_pk, receiving_pk, signing_pk, metadata) ==
    Ok(backend_verify_cfrag(as_backend(cfrag), as_backend(capsule),
                            as_backend(delegating_pk), as_backend(receiving_pk),
                            as_backend(signing_pk), metadata))

encrypt(pk, plaintext) ==
    LET r == backend_encrypt(as_backend(pk), plaintext)
    IN  IF IsOk(r)
        THEN Ok([capsule |-> from_backend("Capsule", r.val.capsule),
                 ciphertext |-> r.val.ciphertext])
        ELSE CASE r.err = "PlaintextTooLarge" ->
                      GenericError(<<"Plaintext is too large to encrypt">>)

decrypt_original(sk, capsule, ciphertext) ==
    LET r == backend_decrypt_original(as_backend(sk), as_backend(capsule), ciphertext)
    IN  IF IsOk(r) THEN r ELSE map_decryption_err(r.err)

generate_kfrags(delegating_sk, receiving_pk, signing_sk, threshold, num_kfrags, sign_delegating_key, sign_receiving_key) ==
    LET backend_kfrags ==
            backend_generate_kfrags(as_backend(delegating_sk), as_backend(receiving_pk),
                                    as_backend(signing_sk), threshold, num_kfrags,
                                    sign_delegating_key, sign_receiving_key)
    IN  Ok([i \in 1..Len(backend_kfrags) |-> from_backend("KeyFrag", backend_kfrags[i])])

reencrypt(capsule, kfrag, metadata) ==
    Ok(from_backend("CapsuleFrag",
                    backend_reencrypt(as_backend(capsule), as_backend(kfrag), metadata)))

decrypt_reencrypted_drop_last(decrypting_sk, delegating_pk, capsule, cfrags, ciphertext) ==
    LET backend_cfrags == [i \in 1..(Len(cfrags) - 1) |-> as_backend(cfrags[i])]
        r == backend_decrypt_reencrypted(as_backend(decrypting_sk),
                                         as_backend(delegating_pk),
                                         as_backend(capsule), backend_cfrags, ciphertext)
    IN  IF IsOk(r) THEN r ELSE map_reencryption_err(r.stage, r.err)

decrypt_reencrypted(decrypting_sk, delegating_pk, capsule, cfrags, ciphertext) ==
    LET backend_cfrags == [i \in 1..Len(cfrags) |-> as_backend(cfrags[i])]
        r == backend_decrypt_reencrypted(as_backend(decrypting_sk),
                                         as_backend(delegating_pk),
                                         as_backend(capsule), backend_cfrags, ciphertext)
    IN  IF IsOk(r) THEN r ELSE map_reencryption_err(r.stage, r.err)

(***************************************************************************)
(* The host's inputs: valid instances of each type, built by the adapter's *)
(* own operations from the keys 1..MaxKey                                  *)
(***************************************************************************)
Keys == 1..MaxKey

At(obj, addr) == [obj EXCEPT !.addr = addr]

SK(s) == Obj("SecretKey", s, 1)
PK(s) == At(from_secret_key(SK(s)).val, 1)

\* the party a delegates to
Peer(a) == (a % MaxKey) + 1

Messages == {<<i>> : i \in 0..MaxMsg}
Labels == Messages

Plaintext(n) == [i \in 1..n |-> 7 + i]
Plaintexts == {Plaintext(n) : n \in 0..(MaxPlaintextLen + 1)}

Metadatas == {None, Some(<<1>>)}

SecretKeys == {SK(s) : s \in Keys}
Factories == {Obj("SecretKeyFactory", IntToBytes(k, FactorySeedSize), 1) : k \in Keys}
PublicKeys == {PK(s) : s \in Keys}
Signers == {At(Signer_new(sk).val, 1) : sk \in SecretKeys}
Signatures == {At(sign(sg, m).val, 1) : sg \in Signers, m \in Messages}

\* what encrypt gives the owner of key a for the plaintext of length n
Encrypted(a, n) == encrypt(PK(a), Plaintext(n)).val
CapsuleOf(a, n) == At(Encrypted(a, n).capsule, 1)
Capsules == {CapsuleOf(a, n) : a \in Keys, n \in 0..1}

\* the delegation from a to Peer(a), signed by a
Kfrags(a, threshold, n, sign_d, sign_r) ==
    generate_kfrags(SK(a), PK(Peer(a)), SK(a), threshold, n, sign_d, sign_r).val
Batch(a) == Kfrags(a, Threshold, NumKfrags, TRUE, TRUE)
KeyFrags == {At(Batch(a)[i], 1) : a \in Keys, i \in 1..NumKfrags}

\* fragment i of a's delegation applied to a's capsule for the plaintext of length n
Cfrag(a, n, i) == At(reencrypt(CapsuleOf(a, n), At(Batch(a)[i], 1), None).val, 1)
CapsuleFrags == {Cfrag(a, 1, i) : a \in Keys, i \in 1..NumKfrags}

Instances(T) ==
    CASE T = "SecretKey" -> SecretKeys
      [] T = "SecretKeyFactory" -> Factories
      [] T = "PublicKey" -> PublicKeys
      [] T = "Signer" -> Signers
      [] T = "Signature" -> Signatures
      [] T = "Capsule" -> Capsules
      [] T = "KeyFrag" -> KeyFrags
      [] T = "CapsuleFrag" -> CapsuleFrags

\* byte strings the host hands to from_bytes: a serialization, left intact,
\* cut to its first n bytes, extended by n bytes, or changed in byte n
Variants(w) ==
    {[kind |-> "intact", n |-> 0]}
        \cup {[kind |-> "truncate", n |-> n] : n \in 0..(w - 1)}
        \cup {[kind |-> "extend", n |-> n] : n \in 1..MaxExtra}
        \cup {[kind |-> "corrupt", n |-> n] : n \in 1..w}

Mangle(bytes, var) ==
    CASE var.kind = "intact" -> bytes
      [] var.kind = "truncate" -> SubSeq(bytes, 1, var.n)
      [] var.kind = "extend" -> bytes \o [i \in 1..var.n |-> 0]
      [] var.kind = "corrupt" -> [bytes EXCEPT ![var.n] = (@ + 1) % 256]

\* ciphertexts the host hands to the decryption operations
CtVariants == {"intact", "tampered", "short"}

MangleCt(ct, v) ==
    CASE v = "intact" -> ct
      [] v = "tampered" -> [ct EXCEPT ![Len(ct)] = (@ + 1) % 256]
      [] v = "short" -> SubSeq(ct, 1, NonceSize - 1)

\* the elements of a set of indices in increasing order
RECURSIVE Ascending(_)
Ascending(S) ==
    IF S = {} THEN <<>>
    ELSE LET m == CHOOSE x \in S : \A y \in S : x <= y
         IN  <<m>> \o Ascending(S \ {m})

\* CapsuleFrag sequences the host hands to decrypt_reencrypted for a's capsule:
\* the fragments of a set S of kfrags, and possibly one more fragment: a
\* repetition of fragment x, or fragment x applied to another capsule
Plans ==
    {[S |-> S, extra |-> e, x |-> x, front |-> f] :
        S \in {S \in SUBSET (1..NumKfrags) : Cardinality(S) <= Threshold},
        e \in {"none", "repeat", "foreign"},
        x \in 1..NumKfrags, f \in BOOLEAN}

PlanOk(p) ==
    /\ p.extra = "none" => p.x = 1 /\ ~p.front
    /\ p.extra = "repeat" => p.x \in p.S
    /\ p.extra = "foreign" => p.x <= 2 /\ p.S # {}

CfragsOf(a, p) ==
    LET own == [i \in 1..Cardinality(p.S) |-> Cfrag(a, 1, Ascending(p.S)[i])]
        more == CASE p.extra = "none" -> <<>>
                  [] p.extra = "repeat" -> <<Cfrag(a, 1, p.x)>>
                  [] p.extra = "foreign" -> <<Cfrag(a, 0, p.x)>>
    IN  IF p.front THEN more \o own ELSE own \o more

(***************************************************************************)
(* The state machine: the host invokes one operation at a time             *)
(***************************************************************************)
Idle == [op |-> "idle"]
NotRepeated == [tag |-> "NotRepeated"]

\* the operations that take no random source: op applied to its arguments
Apply(op, a) ==
    CASE op = "secret_key_by_label" -> secret_key_by_label(a[1], a[2])
      [] op = "from_secret_key" -> from_secret_key(a[1])
      [] op = "Signer_new" -> Signer_new(a[1])
      [] op = "sign" -> sign(a[1], a[2])
      [] op = "verifying_key" -> verifying_key(a[1])
      [] op = "Signature_verify" -> Signature_verify(a[1], a[2], a[3])
      [] op = "KeyFrag_verify" -> KeyFrag_verify(a[1], a[2], a[3], a[4])
      [] op = "CapsuleFrag_verify" ->
             CapsuleFrag_verify(a[1], a[2], a[3], a[4], a[5], a[6])
      [] op = "bytes" -> py_bytes(a[1])
      [] op = "from_bytes" -> py_from_bytes(a[1], a[2])
      [] op = "hash" -> py_hash(a[1])
      [] op = "str" -> py_str(a[1])
      [] op = "richcmp" -> py_richcmp(a[1], a[2], a[3])
      [] op = "encrypt" -> encrypt(a[1], a[2])
      [] op = "decrypt_original" -> decrypt_original(a[1], a[2], a[3])
      [] op = "generate_kfrags" ->
             generate_kfrags(a[1], a[2], a[3], a[4], a[5], a[6], a[7])
      [] op = "reencrypt" -> reencrypt(a[1], a[2], a[3])
      [] op = "decrypt_reencrypted" ->
             decrypt_reencrypted(a[1], a[2], a[3], a[4], a[5])

\* the host invokes op on args and holds the result; plan records how the host
\* built the arguments
Invoke(op, args, plan, result) ==
    /\ call = Idle
    /\ call' = [op |-> op, args |-> args, plan |-> plan, result |-> result]
    /\ UNCHANGED <<rng, again>>

Init ==
    /\ rng = 0
    /\ call = Idle
    /\ again = NotRepeated

\* SecretKey.random(): a fresh key from the process-wide random source.  The
\* host observes the key when it holds no other result.
SecretKeyRandom ==
    /\ rng < MaxDraws
    /\ rng' = rng + 1
    /\ \E s \in Keys :
        \/ /\ call = Idle
           /\ call' = [op |-> "SecretKey_random", args |-> <<>>, plan |-> <<>>,
                       result |-> Ok(from_backend("SecretKey", s))]
        \/ /\ call # Idle
           /\ UNCHANGED call
    /\ UNCHANGED again

\* SecretKeyFactory.random()
SecretKeyFactoryRandom ==
    /\ rng < MaxDraws
    /\ rng' = rng + 1
    /\ \E k \in Keys :
        \/ /\ call = Idle
           /\ call' = [op |-> "SecretKeyFactory_random", args |-> <<>>, plan |-> <<>>,
                       result |-> Ok(from_backend("SecretKeyFactory",
                                                  IntToBytes(k, FactorySeedSize)))]
        \/ /\ call # Idle
           /\ UNCHANGED call
    /\ UNCHANGED again

SecretKeyByLabel ==
    /\ call = Idle
    /\ \E f \in Factories, label \in Labels :
        Invoke("secret_key_by_label", <<f, label>>, <<>>,
               secret_key_by_label(f, label))

FromSecretKey ==
    /\ call = Idle
    /\ \E sk \in SecretKeys : Invoke("from_secret_key", <<sk>>, <<>>, from_secret_key(sk))

SignerNew ==
    /\ call = Idle
    /\ \E sk \in SecretKeys : Invoke("Signer_new", <<sk>>, <<>>, Signer_new(sk))

Sign ==
    /\ call = Idle
    /\ \E sg \in Signers, m \in Messages : Invoke("sign", <<sg, m>>, <<>>, sign(sg, m))

VerifyingKey ==
    /\ call = Idle
    /\ \E sg \in Signers : Invoke("verifying_key", <<sg>>, <<>>, verifying_key(sg))

\* the signature of signer sg on message m, verified under any key and message
SignatureVerify ==
    /\ call = Idle
    /\ \E sg \in Signers, m \in Messages, vk \in PublicKeys, m2 \in Messages :
        LET sig == At(sign(sg, m).val, 1)
        IN  Invoke("Signature_verify", <<sig, vk, m2>>,
                   [signer |-> sg, message |-> m], Signature_verify(sig, vk, m2))

OptionalKeys == {None} \cup {Some(pk) : pk \in PublicKeys}

KeyFragVerify ==
    /\ call = Idle
    /\ \E kf \in KeyFrags, spk \in PublicKeys, dpk \in OptionalKeys, rpk \in OptionalKeys :
        Invoke("KeyFrag_verify", <<kf, spk, dpk, rpk>>, <<>>,
               KeyFrag_verify(kf, spk, dpk, rpk))

CapsuleFragVerify ==
    /\ call = Idle
    /\ \E a \in Keys, i \in 1..2, n \in 0..1, spk \in PublicKeys, md \in Metadatas :
        LET cf == Cfrag(a, 1, i)
            c == CapsuleOf(a, n)
        IN  Invoke("CapsuleFrag_verify", <<cf, c, PK(a), PK(Peer(a)), spk, md>>, <<>>,
                   CapsuleFrag_verify(cf, c, PK(a), PK(Peer(a)), spk, md))

ToBytes ==
    /\ call = Idle
    /\ \E T \in Types : \E v \in Instances(T) : Invoke("bytes", <<v>>, <<>>, py_bytes(v))

\* from_bytes on the serialization of v, mangled; a type without a
\* serialization has only the empty byte string to offer
FromBytes ==
    /\ call = Idle
    /\ \E T \in Types : \E v \in Instances(T) :
        LET encoded == py_bytes(v)
            bytes == IF IsOk(encoded) THEN encoded.val ELSE <<>>
        IN  \E var \in Variants(Len(bytes)) :
                LET given == Mangle(bytes, var)
                IN  Invoke("from_bytes", <<T, given>>,
                           [origin |-> v, encoded |-> encoded, variant |-> var],
                           py_from_bytes(T, given))

\* the object itself, or an object of the same type at another address
Others(v) ==
    {v} \cup {At(w, addr) : w \in Instances(v.type), addr \in 2..MaxAddr}

\* hash(obj); the plan holds a second object, its hash and whether the two are equal
Hash ==
    /\ call = Idle
    /\ \E T \in Types : \E v \in Instances(T) : \E other \in Others(v) :
        Invoke("hash", <<v>>,
               [other |-> other, other_hash |-> py_hash(other),
                equal |-> py_richcmp(v, other, "Eq")],
               py_hash(v))

Str ==
    /\ call = Idle
    /\ \E T \in Types : \E v \in Instances(T) : Invoke("str", <<v>>, <<>>, py_str(v))

RichCmp ==
    /\ call = Idle
    /\ \E T \in Types : \E v \in Instances(T) : \E other \in Others(v), op \in CompareOps :
        Invoke("richcmp", <<v, other, op>>, <<>>, py_richcmp(v, other, op))

Encrypt ==
    /\ call = Idle
    /\ \E pk \in PublicKeys, pt \in Plaintexts : Invoke("encrypt", <<pk, pt>>, <<>>, encrypt(pk, pt))

\* the owner of key a encrypted the one-byte plaintext; sk decrypts
DecryptOriginal ==
    /\ call = Idle
    /\ \E a \in Keys, sk \in SecretKeys, v \in CtVariants :
        LET c == CapsuleOf(a, 1)
            ct == MangleCt(Encrypted(a, 1).ciphertext, v)
        IN  Invoke("decrypt_original", <<sk, c, ct>>, [owner |-> a, ct |-> v],
                   decrypt_original(sk, c, ct))

GenerateKfrags ==
    /\ call = Idle
    /\ \E a \in Keys, t \in 1..Threshold, sd \in BOOLEAN, sr \in BOOLEAN :
        \E n \in t..NumKfrags :
            Invoke("generate_kfrags", <<SK(a), PK(Peer(a)), SK(a), t, n, sd, sr>>, <<>>,
                   generate_kfrags(SK(a), PK(Peer(a)), SK(a), t, n, sd, sr))

Reencrypt ==
    /\ call = Idle
    /\ \E c \in Capsules, kf \in KeyFrags, md \in Metadatas :
        Invoke("reencrypt", <<c, kf, md>>, <<>>, reencrypt(c, kf, md))

\* Peer(a) decrypts a's ciphertext with fragments of a's delegation
DecryptReencrypted ==
    /\ call = Idle
    /\ \E a \in Keys, p \in Plans, v \in CtVariants :
        /\ PlanOk(p)
        /\ LET c == CapsuleOf(a, 1)
               cfrags == CfragsOf(a, p)
               ct == MangleCt(Encrypted(a, 1).ciphertext, v)
           IN  Invoke("decrypt_reencrypted", <<SK(Peer(a)), PK(a), c, cfrags, ct>>,
                      [owner |-> a, frags |-> p, ct |-> v],
                      decrypt_reencrypted(SK(Peer(a)), PK(a), c, cfrags, ct))

\* the host invokes the operation it last invoked once more, on the same arguments
Repeat ==
    /\ call # Idle
    /\ call.op \notin {"SecretKey_random", "SecretKeyFactory_random"}
    /\ again = NotRepeated
    /\ again' = Apply(call.op, call.args)
    /\ UNCHANGED <<rng, call>>

\* the host drops the results it holds
Return ==
    /\ call # Idle
    /\ call' = Idle
    /\ again' = NotRepeated
    /\ UNCHANGED rng

Next ==
    \/ SecretKeyRandom
    \/ SecretKeyFactoryRandom
    \/ SecretKeyByLabel
    \/ FromSecretKey
    \/ SignerNew
    \/ Sign
    \/ VerifyingKey
    \/ SignatureVerify
    \/ KeyFragVerify
    \/ CapsuleFragVerify
    \/ ToBytes
    \/ FromBytes
    \/ Hash
    \/ Str
    \/ RichCmp
    \/ Encrypt
    \/ DecryptOriginal
    \/ GenerateKfrags
    \/ Reencrypt
    \/ DecryptReencrypted
    \/ Repeat
    \/ Return

Spec == Init /\ [][Next]_vars

(***************************************************************************)
(* Properties                                                              *)
(***************************************************************************)
SecretTypes == {"SecretKey", "SecretKeyFactory", "Signer"}
PublicTypes == {"PublicKey", "Signature", "Capsule", "KeyFrag", "CapsuleFrag"}

IsRoundTrip == call.op = "from_bytes" /\ call.plan.variant.kind = "intact"

\* C1 as stated: for each of the eight types and every valid instance v,
\* to_bytes(v) succeeds and from_bytes(T, to_bytes(v)) succeeds with a value
\* equal to v.
RoundTripAllEightTypes ==
    IsRoundTrip =>
        /\ IsOk(call.plan.encoded)
        /\ IsOk(call.result)
        /\ PartialEq(call.result.val, call.plan.origin)

\* C1 amended: the round trip holds for the seven serializable types (bytes(v)
\* succeeds, from_bytes of it succeeds with a value of the same type equal to
\* v); Signer defines neither __bytes__ nor from_bytes.
RoundTripSerializableTypes ==
    /\ call.op = "bytes" =>
           IF call.args[1].type = "Signer" THEN call.result = NoMethod
           ELSE IsOk(call.result)
    /\ IsRoundTrip =>
           IF call.plan.origin.type = "Signer"
           THEN call.plan.encoded = NoMethod /\ call.result = NoMethod
           ELSE /\ IsOk(call.plan.encoded)
                /\ IsOk(call.result)
                /\ call.result.val.type = call.plan.origin.type
                /\ PartialEq(call.result.val, call.plan.origin)

RoundTripWitness ==
    /\ IsRoundTrip
    /\ call.plan.origin.type = "CapsuleFrag"
    /\ IsOk(call.result)
    /\ call.result.val.addr # call.plan.origin.addr

TooShortError == PyValueError(<<"The given bytestring is too short">>)
TooLongError == PyValueError(<<"The given bytestring is too long">>)
ConstructionError(T) == PyValueError(<<"Failed to deserialize a ", T, " object">>)

\* C2: from_bytes(T, b) on a type of serialized width W fails with the
\* too-short ValueError when Len(b) < W, with the too-long ValueError when
\* Len(b) > W, and at Len(b) = W either yields a value whose serialization is
\* b or fails with the construction ValueError; one byte dropped gives too
\* short, one byte appended too long; the three messages differ and a failure
\* carries no value.
FromBytesOutcomes ==
    (call.op = "from_bytes" /\ call.args[1] \in Serializable) =>
        LET T == call.args[1]
            b == call.args[2]
            W == Len(call.plan.encoded.val)
            r == call.result
        IN  /\ Len(b) < W => r = TooShortError
            /\ Len(b) > W => r = TooLongError
            /\ Len(b) = W =>
                   \/ IsOk(r) /\ r.val.type = T /\ py_bytes(r.val) = Ok(b)
                   \/ r = ConstructionError(T)
            /\ call.plan.variant.kind = "truncate" => r = TooShortError
            /\ call.plan.variant.kind = "extend" => r = TooLongError
            /\ IsErr(r) => r.kind = "ValueError" /\ DOMAIN r = {"tag", "kind", "msg"}
            /\ Cardinality({TooShortError, TooLongError, ConstructionError(T)}) = 3

FromBytesWitness ==
    /\ call.op = "from_bytes"
    /\ call.plan.variant.kind = "corrupt"
    /\ call.result = ConstructionError("KeyFrag")

\* the specification's translation table: leaf failure -> host-visible kind
ValueErrorLeaves ==
    {"NoCapsuleFrags", "MismatchedCapsuleFrags", "RepeatingCapsuleFrags",
     "CiphertextTooShort"}
CryptoErrorLeaves == {"ZeroHash", "ValidationFailed", "AuthenticationFailed"}
OpenLeaves ==
    {"NoCapsuleFrags", "MismatchedCapsuleFrags", "RepeatingCapsuleFrags",
     "ZeroHash", "ValidationFailed"}
DecryptionLeaves == {"CiphertextTooShort", "AuthenticationFailed"}

ExpectedKind(leaf) ==
    IF leaf \in ValueErrorLeaves THEN "ValueError" ELSE "GenericError"

\* every leaf of the two-level error, with the error the adapter raises for it
TranslatedLeaves ==
    {<<"OnOpen", e, map_reencryption_err("OnOpen", e)>> : e \in OpenLeaves}
        \cup {<<"OnDecryption", e, map_reencryption_err("OnDecryption", e)>> :
                 e \in DecryptionLeaves}

\* the backend's own answer to the call the host made
BackendLeaf ==
    CASE call.op = "decrypt_original" ->
             backend_decrypt_original(as_backend(call.args[1]),
                                      as_backend(call.args[2]), call.args[3])
      [] call.op = "decrypt_reencrypted" ->
             backend_decrypt_reencrypted(
                 as_backend(call.args[1]), as_backend(call.args[2]),
                 as_backend(call.args[3]),
                 [i \in 1..Len(call.args[4]) |-> as_backend(call.args[4][i])],
                 call.args[5])
      [] call.op = "secret_key_by_label" ->
             backend_secret_key_by_label(as_backend(call.args[1]), call.args[2])

\* C3: every leaf failure is translated, to ValueError for NoCapsuleFrags,
\* MismatchedCapsuleFrags, RepeatingCapsuleFrags and CiphertextTooShort and to
\* GenericError for ZeroHash, ValidationFailed and AuthenticationFailed; a
\* failure of any operation but an ordering comparison is of one of these two
\* kinds; a decryption leaf gets the same error from decrypt_original and from
\* decrypt_reencrypted; no two leaves share a message.
ErrorTranslation ==
    /\ \A t \in TranslatedLeaves : IsErr(t[3]) /\ t[3].kind = ExpectedKind(t[2])
    /\ \A e \in DecryptionLeaves :
           map_reencryption_err("OnDecryption", e) = map_decryption_err(e)
    /\ \A t, u \in TranslatedLeaves : t[3].msg = u[3].msg => t = u
    /\ (call.op \notin {"idle", "richcmp"} /\ IsErr(call.result)) =>
           call.result.kind \in {"ValueError", "GenericError"}
    /\ (call.op \in {"decrypt_original", "decrypt_reencrypted", "secret_key_by_label"}
            /\ IsErr(BackendLeaf)) =>
           /\ IsErr(call.result)
           /\ call.result.kind = ExpectedKind(BackendLeaf.err)
           /\ call.op = "decrypt_original" =>
                  call.result = map_reencryption_err("OnDecryption", BackendLeaf.err)
           /\ call.op = "secret_key_by_label" =>
                  \A t \in TranslatedLeaves : t[3].msg # call.result.msg

ErrorTranslationWitness ==
    /\ call.op = "decrypt_reencrypted"
    /\ IsErr(BackendLeaf)
    /\ BackendLeaf.stage = "OnDecryption"
    /\ BackendLeaf.err = "CiphertextTooShort"
    /\ call.result.kind = "ValueError"

IsRecombination ==
    /\ call.op = "decrypt_reencrypted"
    /\ call.plan.frags.extra = "none"
    /\ call.plan.ct = "intact"

\* C4: generate_kfrags returns exactly num_kfrags fragments; with the
\* fragments of any Threshold distinct kfrags of a delegation of NumKfrags,
\* decrypt_reencrypted returns the original plaintext; with the fragments of
\* only Threshold - 1 distinct kfrags it never returns the original plaintext.
ThresholdRecovery ==
    /\ call.op = "generate_kfrags" =>
           IsOk(call.result) /\ Len(call.result.val) = call.args[5]
    /\ IsRecombination =>
           /\ Cardinality(call.plan.frags.S) = Threshold =>
                  call.result = Ok(Plaintext(1))
           /\ Cardinality(call.plan.frags.S) = Threshold - 1 =>
                  call.result # Ok(Plaintext(1))

ThresholdRecoveryWitness ==
    /\ IsRecombination
    /\ call.plan.frags.S = {1, 3, NumKfrags}
    /\ Len(call.args[4]) = 3
    /\ call.result = Ok(Plaintext(1))

\* C5: decrypt_reencrypted on an empty fragment sequence fails with the
\* NoCapsuleFrags error, on a sequence with a repeated fragment with the
\* RepeatingCapsuleFrags error, on a sequence with a fragment of another
\* capsule with the MismatchedCapsuleFrags error, whatever the ciphertext is:
\* never with a decryption-stage error, and never with a plaintext.
FragmentSetValidatedFirst ==
    call.op = "decrypt_reencrypted" =>
        /\ Len(call.args[4]) = 0 =>
               call.result = PyValueError(<<"Empty CapsuleFrag sequence">>)
        /\ call.plan.frags.extra = "repeat" =>
               call.result = PyValueError(<<"Some of the CapsuleFrags are repeated">>)
        /\ call.plan.frags.extra = "foreign" =>
               call.result = PyValueError(<<"CapsuleFrags are not pairwise consistent">>)
        /\ (Len(call.args[4]) = 0 \/ call.plan.frags.extra # "none") =>
               /\ IsErr(call.result)
               /\ \A e \in DecryptionLeaves : call.result # map_decryption_err(e)

FragmentSetWitness ==
    /\ call.op = "decrypt_reencrypted"
    /\ call.plan.frags.extra = "repeat"
    /\ call.plan.ct = "short"
    /\ Len(call.args[5]) < NonceSize
    /\ call.result = PyValueError(<<"Some of the CapsuleFrags are repeated">>)

\* C6: str of a SecretKey, SecretKeyFactory or Signer is the placeholder
\* "TypeName:...", the same for every instance; these three types define no
\* hash; str of the five public types is "TypeName:" and the first 16 hex
\* characters of the serialized bytes, and so depends on them.
SecretDisplayOpaque ==
    /\ call.op = "str" =>
           LET v == call.args[1]
           IN  IF v.type \in SecretTypes
               THEN /\ call.result = Ok(<<v.type, ":...">>)
                    /\ \A w \in Instances(v.type) : py_str(w) = call.result
               ELSE /\ v.type \in PublicTypes
                    /\ call.result =
                           Ok(<<v.type, ":">>
                                  \o SubSeq(hex_encode(py_bytes(v).val), 1, 16))
                    /\ \E w \in Instances(v.type) : py_str(w) # call.result
    /\ call.op = "hash" =>
           (call.args[1].type \in SecretTypes <=> call.result = NoMethod)

SecretDisplayWitness ==
    /\ call.op = "str"
    /\ call.args[1].type = "SecretKeyFactory"
    /\ call.result = Ok(<<"SecretKeyFactory", ":...">>)

\* C7: for the five public types, two equal values have equal hashes; the hash
\* is the host's hash of the pair (type name, serialized bytes), and is the
\* same when taken again.
HashConsistency ==
    (call.op = "hash" /\ call.args[1].type \in PublicTypes) =>
        /\ IsOk(call.result)
        /\ call.plan.equal = Ok(TRUE) => call.plan.other_hash = call.result
        /\ call.result =
               Ok(builtins_hash(<<call.args[1].type, py_bytes(call.args[1]).val>>))
        /\ again # NotRepeated => again = call.result

HashConsistencyWitness ==
    /\ call.op = "hash"
    /\ call.args[1].type = "KeyFrag"
    /\ call.plan.other.addr # call.args[1].addr
    /\ call.plan.equal = Ok(TRUE)
    /\ IsOk(call.result)

\* C8: == and != always succeed, != is the negation of ==, v == v holds, and
\* every ordering comparison fails with the TypeError "<TypeName> objects are
\* not ordered", whatever the operands are.
EqualityOnlyComparison ==
    call.op = "richcmp" =>
        LET v == call.args[1]
            other == call.args[2]
            op == call.args[3]
            eq == py_richcmp(v, other, "Eq")
        IN  /\ op \in {"Eq", "Ne"} => IsOk(call.result) /\ call.result.val \in BOOLEAN
            /\ op = "Eq" /\ other = v => call.result = Ok(TRUE)
            /\ op = "Eq" => call.result.val = (py_bytes(v) = py_bytes(other)
                                                   /\ v.backend = other.backend)
            /\ op = "Ne" => IsOk(eq) /\ call.result.val = ~eq.val
            /\ op \in {"Lt", "Le", "Gt", "Ge"} =>
                   call.result = PyTypeError(<<v.type, " objects are not ordered">>)

EqualityOnlyWitness ==
    /\ call.op = "richcmp"
    /\ call.args[3] = "Ne"
    /\ call.args[1].type = "Signer"
    /\ call.result = Ok(TRUE)

IsVerification ==
    call.op \in {"Signature_verify", "KeyFrag_verify", "CapsuleFrag_verify"}

\* C9: the three verify operations return a boolean for every input, absent
\* optional arguments included; the signature of Signer(sk) on m verifies
\* under Signer(sk).verifying_key() and m, and not under another message or
\* the verifying key of a Signer of another secret key.
VerificationIsTotal ==
    /\ IsVerification => IsOk(call.result) /\ call.result.val \in BOOLEAN
    /\ call.op = "Signature_verify" =>
           call.result.val =
               (/\ PartialEq(call.args[2], verifying_key(call.plan.signer).val)
                /\ call.args[3] = call.plan.message)

VerificationWitness ==
    /\ call.op = "Signature_verify"
    /\ PartialEq(call.args[2], verifying_key(call.plan.signer).val)
    /\ call.args[3] # call.plan.message
    /\ call.result = Ok(FALSE)

====
